---- MODULE Spec2Model ----
(***************************************************************************)
(* A model of jira_automation.py: the precise-time waiter, the per-ticket  *)
(* target-time resolver, the transition executor and the slot runner       *)
(* (run_automation), the command line entry point (main), and a day of    *)
(* slot invocations against a ticket service that follows the workflow of  *)
(* SCHEDULE.                                                               *)
(*                                                                         *)
(* Time.  An instant is an integer count of ticks of 100 microseconds,     *)
(* counted from midnight (UTC+7) of the day the run starts; that day is    *)
(* day 0, the day before is day -1.  A naive WIB datetime is such an       *)
(* instant; its date is (instant \div Day) and its time of day is          *)
(* (instant % Day).  A datetime.time is a time of day in ticks.            *)
(*                                                                         *)
(* Strings that the code compares letter by letter (transition names) are  *)
(* sequences of one-character strings.  Python's None is the record None;  *)
(* a present value v is Some(v).                                           *)
(***************************************************************************)
EXTENDS Integers, Sequences, FiniteSets, TLC

VARIABLES
    clock,                \* now_wib(): the current naive WIB instant
    pc,                   \* where run_automation stands
    time_slot,            \* argument of run_automation
    wait_for_exact_time,  \* argument of run_automation
    JIRA_ACCOUNT_ID,      \* the cached account id ("" when not yet fetched)
    issues,               \* the list search_issues returned
    idx,                  \* position of the for loop over issues (1-based)
    target_time,          \* what the resolver returned for issues[idx]
    wait_called_at,       \* instant at which wait_for_precise_time was entered
    last_heartbeat,       \* last_heartbeat[0] of the wait in progress
    slept,                \* whether the wait in progress has paused or polled again
    heartbeats,           \* instants of the 'Still waiting...' lines of the wait in progress
    transition_id,        \* the id found for issues[idx] (Some(id)) or None
    calls,                \* every remote request made, in order
    waits,                \* every completed wait, in order
    outcomes,             \* what was logged for each handled issue, in order
    resolved,             \* what the resolver returned for each issue, and on which day
    args,                 \* the parsed command line (main)
    token,                \* whether JIRA_API_TOKEN is set
    weekday,              \* datetime.weekday() of day 0 (0 = Monday)
    exit_code,            \* the status the process exited with, or None
    status,               \* the service's status of each ticket; empty when left open
    history,              \* the transitions the service performed, over all invocations
    invoked,              \* the slots run_automation was invoked for, in order
    sched,                \* scheduler.py: its jobs and where its loop stands
    arg,                  \* input of the pure function under test (function specifications)
    ret                   \* its result

vars == <<clock, pc, time_slot, wait_for_exact_time, JIRA_ACCOUNT_ID, issues, idx,
          target_time, wait_called_at, last_heartbeat, slept, heartbeats,
          transition_id, calls, waits, outcomes, resolved, args, token, weekday,
          exit_code, status, history, invoked, sched, arg, ret>>

(***************************************************************************)
(* Units of time                                                           *)
(***************************************************************************)
Tick == 1
Second == 10000
Millisecond == Second \div 1000
Minute == 60 * Second
Hour == 60 * Minute
Day == 24 * Hour

\* _WIB = timezone(timedelta(hours=7)), as an offset from UTC
WIB == 7 * Hour

\* datetime.time(h, m, s)
Time(h, m, s) == h * Hour + m * Minute + s * Second

DateOf(dt) == dt \div Day
TimeOfDay(dt) == dt % Day

None == [kind |-> "None"]
Some(v) == [kind |-> "Some", val |-> v]

\* dict.get(key): the value, or None when the key is missing
Get(d, key) == IF key \in DOMAIN d THEN d[key] ELSE None

(***************************************************************************)
(* SCHEDULE                                                                *)
(***************************************************************************)
SlotIds == {"8AM", "12PM", "1PM", "5PM"}

SCHEDULE ==
    [s \in SlotIds |->
        CASE s = "8AM" ->
               [target_time |-> Time(8, 0, 0),
                from_status |-> "SUPPORT OPEN",
                transition_name |-> <<"I","N","P","R","O","G","R","E","S","S"," ","S","U","P","P","O","R","T">>]
          [] s = "12PM" ->
               [target_time |-> Time(12, 0, 0),
                from_status |-> "SUPPORT INPROGRESS",
                transition_name |-> <<"H","o","l","d"," ","S","u","p","p","o","r","t">>]
          [] s = "1PM" ->
               [target_time |-> Time(13, 0, 0),
                from_status |-> "SUPPORT HOLD",
                transition_name |-> <<"H","O","L","D"," ","k","e"," ","I","N","P","R","O","G","R","E","S","S"," ","S","U","P","P","O","R","T">>]
          [] s = "5PM" ->
               [target_time |-> Time(17, 0, 0),
                from_status |-> "SUPPORT INPROGRESS",
                transition_name |-> <<"S","u","p","p","o","r","t"," ","D","o","n","e">>]]

(***************************************************************************)
(* find_transition_id                                                      *)
(***************************************************************************)
UpperLetters == <<"A","B","C","D","E","F","G","H","I","J","K","L","M",
                  "N","O","P","Q","R","S","T","U","V","W","X","Y","Z">>
LowerLetters == <<"a","b","c","d","e","f","g","h","i","j","k","l","m",
                  "n","o","p","q","r","s","t","u","v","w","x","y","z">>

\* str.lower() on one character
LowerChar(c) ==
    IF \E i \in 1..Len(UpperLetters) : UpperLetters[i] = c
    THEN LowerLetters[CHOOSE i \in 1..Len(UpperLetters) : UpperLetters[i] = c]
    ELSE c

\* variant: no case folding
lower_AsIs(s) == s

\* str.lower()
lower(s) == [i \in 1..Len(s) |-> LowerChar(s[i])]

\* t.get('name', '')
NameOf(t) == IF "name" \in DOMAIN t THEN t.name ELSE <<>>

RECURSIVE FindFrom(_, _, _)
FindFrom(transitions, target, i) ==
    IF i > Len(transitions) THEN None
    ELSE IF lower(NameOf(transitions[i])) = target THEN Some(transitions[i].id)
    ELSE FindFrom(transitions, target, i + 1)

find_transition_id(transitions, transition_name) ==
    FindFrom(transitions, lower(transition_name), 1)

(***************************************************************************)
(* parse_issue_datetime                                                    *)
(*                                                                         *)
(* A field value is None (JSON null) or a text.  A text is described by    *)
(* its shape and, where it has them, the date, time of day and UTC offset  *)
(* written in it:                                                          *)
(*   "frac_tz"  2026-02-23T08:00:00.000+0700                               *)
(*   "sec_tz"   2026-02-23T08:00:00+0700                                   *)
(*   "no_tz"    2026-02-23T08:00:00.000      (no offset)                   *)
(*   "space"    2026-02-23 08:00:00+0700     (blank instead of T)          *)
(*   "junk"     any other non-empty text                                   *)
(*   "empty"    the empty string                                           *)
(***************************************************************************)
Text(shape, day, tod, off) ==
    [kind |-> "Text", shape |-> shape, day |-> day, tod |-> tod, off |-> off]

\* the shapes strptime accepts for each entry of _JIRA_TS_FORMATS
JIRA_TS_FORMATS == << {"frac_tz"}, {"sec_tz"} >>

\* bool(field_value)
Truthy(field_value) == field_value.kind = "Text" /\ field_value.shape # "empty"

\* datetime.strptime(field_value, fmt): an aware datetime, or ValueError
\* (None here).  local is the wall time written in the text, utcoffset its
\* offset.
strptime(field_value, fmt) ==
    IF field_value.shape \in fmt
    THEN Some([local |-> field_value.day * Day + field_value.tod,
               utcoffset |-> field_value.off])
    ELSE None

RECURSIVE TryFormats(_, _)
TryFormats(field_value, i) ==
    IF i > Len(JIRA_TS_FORMATS) THEN None
    ELSE IF strptime(field_value, JIRA_TS_FORMATS[i]) # None
         THEN strptime(field_value, JIRA_TS_FORMATS[i])
         ELSE TryFormats(field_value, i + 1)

parse_issue_datetime(field_value) ==
    IF ~Truthy(field_value) THEN None ELSE TryFormats(field_value, 1)

(***************************************************************************)
(* _resolve_target_time_for_issue                                          *)
(***************************************************************************)
\* variant: the wall time as written, not converted
astimezone_AsWritten(dt, tz) == dt.local

\* dt.astimezone(tz).replace(tzinfo=None): the same instant as a naive
\* wall time at offset tz
astimezone(dt, tz) == dt.local - dt.utcoffset + tz

\* variant: every slot but 8AM reads the end field
PlanField_EndUnlessStart(slot) ==
    IF slot = "8AM" THEN Some("customfield_10093") ELSE Some("customfield_10094")

\* variant: the end slot reads the start field too
PlanField_AlwaysStart(slot) ==
    IF slot \in {"8AM", "5PM"} THEN Some("customfield_10093") ELSE None

\* which field the slot reads; None for the fixed-time slots
PlanField(slot) ==
    IF slot = "8AM" THEN Some("customfield_10093")
    ELSE IF slot = "5PM" THEN Some("customfield_10094")
    ELSE None

\* the date guard and the final return, given the parsed datetime
GuardedTime(dt, now) ==
    LET wib_dt == astimezone(dt, WIB)
        today_wib == DateOf(now)
    IN IF DateOf(wib_dt) # today_wib THEN None ELSE Some(TimeOfDay(wib_dt))

\* variant: a field that does not parse vetoes the ticket
Unparsed_Skip(fallback) == None

\* what is returned when the field does not parse
Unparsed(fallback) == Some(fallback)

\* now is the value now_wib() returns inside the call
resolve_target_time_for_issue(issue, slot, fallback, now) ==
    LET fields == IF "fields" \in DOMAIN issue THEN issue.fields ELSE << >>
        field == PlanField(slot)
    IN IF field = None THEN Some(fallback)
       ELSE LET dt == parse_issue_datetime(Get(fields, field.val))
            IN IF dt = None THEN Unparsed(fallback)
               ELSE GuardedTime(dt.val, now)

(***************************************************************************)
(* wait_for_precise_time: the pause chosen for the remaining time          *)
(***************************************************************************)
\* variant: two brackets only
PauseFor_Coarse(remaining) ==
    IF remaining > 30 * Second THEN 30 * Second
    ELSE IF remaining > 0 THEN Second \div 2
    ELSE 0

\* the argument of time.sleep, in ticks; 0 is the busy-wait branch (pass)
PauseFor(remaining) ==
    IF remaining > 60 * Second THEN 30 * Second
    ELSE IF remaining > 1 * Second THEN Second \div 2
    ELSE IF remaining > 10 * Millisecond THEN Millisecond
    ELSE IF remaining > Tick THEN Tick
    ELSE 0

\* target_dt = now.replace(hour=..., minute=..., second=..., microsecond=...)
TargetDt(now, target) == DateOf(now) * Day + target

\* variants of the exit test: leaving a second early; leaving only past the target
Reached_Early(now, target) == now + Second >= TargetDt(now, target)
Reached_Strict(now, target) == now > TargetDt(now, target)

\* the loop's exit test
Reached(now, target) == now >= TargetDt(now, target)

\* variant: a heartbeat as soon as a second has passed
HeartbeatDue_Eager(now, last) == now - last >= Second

\* the heartbeat test
HeartbeatDue(now, last) == now - last >= 30 * Second

(***************************************************************************)
(* The environment: how long things take and what the ticket service       *)
(* answers.                                                                *)
(***************************************************************************)
\* time.sleep(d) suspends for at least d; an iteration of the busy poll takes
\* a tick, or two when the process is held up
Elapsed(pause) == IF pause = 0 THEN {Tick, 2 * Tick} ELSE {pause, 2 * pause}

\* how long a remote request takes
Latencies == {Second \div 2}

\* the tickets the service knows, by key
MaxIssues == 2

Issue(key, start, end) ==
    [key |-> key,
     fields |-> [customfield_10093 |-> start, customfield_10094 |-> end]]

Catalog ==
    { Issue("SUP-1", Text("frac_tz", 0, Time(8, 0, 0), WIB),
                     Text("frac_tz", 0, Time(17, 0, 0), WIB)),
      Issue("SUP-2", Text("sec_tz", 0, Time(8, 0, 2), WIB),
                     Text("frac_tz", -1, Time(17, 0, 0), WIB)),
      Issue("SUP-3", Text("junk", 0, 0, 0),
                     Text("frac_tz", 0, Time(10, 0, 1), 0)) }

\* a search result: tickets of the catalog, each at most once, in any order
RECURSIVE ListsOver(_, _)
ListsOver(S, n) ==
    IF n = 0 \/ S = {} THEN { << >> }
    ELSE { << >> } \cup
         UNION { { <<x>> \o l : l \in ListsOver(S \ {x}, n - 1) } : x \in S }

SearchResults == ListsOver(Catalog, MaxIssues)

Transition(id, name) == [id |-> id, name |-> name]

T_start == Transition("11", <<"I","N","P","R","O","G","R","E","S","S"," ","S","U","P","P","O","R","T">>)
T_hold == Transition("21", <<"h","o","l","d"," ","s","u","p","p","o","r","t">>)
T_resume == Transition("31", <<"H","O","L","D"," ","k","e"," ","I","N","P","R","O","G","R","E","S","S"," ","S","U","P","P","O","R","T">>)
T_done == Transition("41", <<"S","U","P","P","O","R","T"," ","D","O","N","E">>)

\* the resume transition of a ticket in another workflow: same name, other id
T_resume_other == Transition("32", T_resume.name)

\* what list-transitions may answer for a ticket
TransitionLists ==
    { << >>,
      <<T_resume>>,
      <<T_resume_other>>,
      <<T_resume, T_start, T_done, T_hold>> }

\* The service when it keeps track of the tickets: the workflow that the
\* from_status and transition_name entries of SCHEDULE walk through.
DayKeys == {"SUP-1"}

DayCatalog == { t \in Catalog : t.key \in DayKeys }

\* a ticket whose planned start is after the wake-up of the 12PM slot
LateTicket ==
    Issue("SUP-4", Text("frac_tz", 0, Time(12, 0, 30), WIB),
                   Text("frac_tz", 0, Time(17, 0, 0), WIB))

\* the tickets the workflow service may hold
WorkCatalog == DayCatalog \cup {LateTicket}

\* the transitions the workflow offers for a ticket in status st
Offered(st) ==
    IF st = "SUPPORT OPEN" THEN <<T_start>>
    ELSE IF st = "SUPPORT INPROGRESS" THEN <<T_hold, T_done>>
    ELSE IF st = "SUPPORT HOLD" THEN <<T_resume>>
    ELSE << >>

\* the status a ticket has once the transition with this id is performed
After(id) ==
    IF id = T_start.id THEN "SUPPORT INPROGRESS"
    ELSE IF id = T_hold.id THEN "SUPPORT HOLD"
    ELSE IF id = T_resume.id THEN "SUPPORT INPROGRESS"
    ELSE "SUPPORT DONE"

\* what a search for the tickets in from_status, planned to start on the day
\* of now, may answer
SearchAnswers(from_status, now) ==
    IF DOMAIN status = {} THEN SearchResults
    ELSE LET hit == { t \in WorkCatalog :
                        /\ t.key \in DOMAIN status
                        /\ status[t.key] = from_status
                        /\ t.fields.customfield_10093.day = DateOf(now) }
         IN { l \in ListsOver(hit, Cardinality(hit)) : Len(l) = Cardinality(hit) }

\* what list-transitions may answer for the ticket
TransitionAnswers(key) ==
    IF DOMAIN status = {} THEN TransitionLists ELSE { Offered(status[key]) }

\* when the service performs a transition whose request was sent at sent and
\* answered at over: on arrival or just before answering
PerformedAt(sent, over) == IF DOMAIN status = {} THEN {sent} ELSE {sent, over}

\* when the process is started, relative to the slot's fallback time: about a
\* minute early (the dispatcher's wake-up), or late
StartOffsets == { -(62 * Second + Second \div 2), Second \div 2 }

(***************************************************************************)
(* run_automation                                                          *)
(***************************************************************************)
\* the name handed to _execute_transition_for_issue
TransitionNameFor(slot) == SCHEDULE[slot].transition_name

\* variant: the loop does not advance
AfterIssue_Same(i) == i

\* the for loop: the position after issue i
AfterIssue(i) == i + 1

\* variant: the first handled issue ends the run
PcAfter_Return(i) == "returned"

\* variant: the end of the list is not noticed
PcAfter_Loop(i) == "loop"

\* where control goes once issue i has been handled
PcAfter(i) == IF AfterIssue(i) > Len(issues) THEN "returned" ELSE "loop"

Log(result, before, after) ==
    [key |-> issues[idx].key, result |-> result, before |-> before, after |-> after]

NoWait == /\ UNCHANGED <<wait_called_at, last_heartbeat, slept, heartbeats, waits>>

\* nothing outside the run itself changes
NoFn == UNCHANGED <<arg, ret, args, token, weekday, exit_code, invoked, sched>>

\* parse_args with no option given
\* jira_automation.py started otherwise than by scheduler.py
NoScheduler == [pc |-> "off", next_run |-> << >>, queue |-> << >>,
                launches |-> << >>, running |-> 0]

DefaultArgs == [time_slot |-> "auto", test |-> FALSE, no_wait |-> FALSE]

\* run_automation called directly, in a process with its credentials
NoProcess ==
    /\ sched = NoScheduler
    /\ args = DefaultArgs
    /\ token = TRUE
    /\ weekday = 0
    /\ exit_code = None

\* the answers of the ticket service are left open
OpenService ==
    /\ status = << >>
    /\ history = << >>

\* variant: the wait does not depend on the flag
Disposition_AlwaysWait(t, wait) == IF t = None THEN "skip" ELSE "wait"

\* variant: None only suppresses the wait
Disposition_NoSkip(t, wait) == IF t # None /\ wait THEN "wait" ELSE "execute"

\* lines 576-584: what happens to an issue once its target time is resolved
Disposition(t, wait) ==
    IF t = None THEN "skip" ELSE IF wait THEN "wait" ELSE "execute"

Init ==
    /\ time_slot \in SlotIds \cup {"9AM"}
    /\ wait_for_exact_time \in BOOLEAN
    /\ clock \in IF time_slot \in SlotIds
                 THEN { SCHEDULE[time_slot].target_time + o : o \in StartOffsets }
                 ELSE { Time(9, 0, 0) }
    /\ pc = "entry"
    /\ JIRA_ACCOUNT_ID = ""
    /\ issues = << >>
    /\ idx = 0
    /\ target_time = None
    /\ wait_called_at = 0
    /\ last_heartbeat = 0
    /\ slept = FALSE
    /\ heartbeats = << >>
    /\ transition_id = None
    /\ calls = << >>
    /\ waits = << >>
    /\ outcomes = << >>
    /\ resolved = << >>
    /\ NoProcess
    /\ OpenService
    /\ invoked = <<[slot |-> time_slot, at |-> clock]>>
    /\ arg = None
    /\ ret = None

\* variant: every slot id is let through
ValidSlot_Any(slot) == TRUE

\* line 531: time_slot in SCHEDULE
ValidSlot(slot) == slot \in DOMAIN SCHEDULE

\* lines 531-545: validate the slot, then build_jql, which looks the account
\* id up once (initialize_account_id -> get_current_user)
Enter ==
    /\ pc = "entry"
    /\ IF ~ValidSlot(time_slot)
       THEN /\ pc' = "returned"
            /\ UNCHANGED <<clock, JIRA_ACCOUNT_ID, calls>>
       ELSE IF JIRA_ACCOUNT_ID # ""
       THEN /\ pc' = "search"
            /\ UNCHANGED <<clock, JIRA_ACCOUNT_ID, calls>>
       ELSE \E ok \in BOOLEAN, lat \in Latencies :
            /\ calls' = Append(calls, [op |-> "myself", at |-> clock])
            /\ clock' = clock + lat
            /\ JIRA_ACCOUNT_ID' = IF ok THEN "account-1" ELSE ""
            /\ pc' = IF ok THEN "search" ELSE "raised"
    /\ UNCHANGED <<time_slot, wait_for_exact_time, issues, idx, target_time,
                   transition_id, outcomes, resolved>>
    /\ NoWait
    /\ UNCHANGED <<status, history>>
    /\ NoFn

\* variant: the issues are handled last first
SearchReturn_Reversed(ok, found) ==
    IF ok THEN [i \in 1..Len(found) |-> found[Len(found) + 1 - i]] ELSE << >>

\* variant: the issues of the response body even when the request failed
SearchReturn_IgnoreError(ok, found) == found

\* what search_issues returns for a response: the issues, or [] on any error
SearchReturn(ok, found) == IF ok THEN found ELSE << >>

\* lines 548-551: search; nothing found (or the search failed) ends the run
Search ==
    /\ pc = "search"
    /\ \E ok \in BOOLEAN, lat \in Latencies,
          found \in SearchAnswers(SCHEDULE[time_slot].from_status, clock) :
          /\ calls' = Append(calls, [op |-> "search", at |-> clock, ok |-> ok,
                                     matched |-> found,
                                     status |-> SCHEDULE[time_slot].from_status,
                                     day |-> DateOf(clock)])
          /\ clock' = clock + lat
          /\ issues' = SearchReturn(ok, found)
          /\ IF issues' = << >>
             THEN pc' = "returned" /\ idx' = idx
             ELSE pc' = "loop" /\ idx' = 1
    /\ UNCHANGED <<time_slot, wait_for_exact_time, JIRA_ACCOUNT_ID, target_time,
                   transition_id, outcomes, resolved>>
    /\ NoWait
    /\ UNCHANGED <<status, history>>
    /\ NoFn

\* lines 573-582: the loop head: resolve, skip on None, enter the wait
NextIssue ==
    /\ pc = "loop"
    /\ idx \in 1..Len(issues)
    /\ LET t == resolve_target_time_for_issue(issues[idx], time_slot,
                                              SCHEDULE[time_slot].target_time, clock)
           what == Disposition(t, wait_for_exact_time)
       IN /\ target_time' = t
          /\ resolved' = Append(resolved, [key |-> issues[idx].key, t |-> t,
                                           today |-> DateOf(clock),
                                           at |-> clock])
          /\ IF what = "skip"
             THEN /\ outcomes' = Append(outcomes, Log("skipped", None, None))
                  /\ idx' = AfterIssue(idx)
                  /\ pc' = PcAfter(idx)
                  /\ UNCHANGED <<wait_called_at, last_heartbeat, slept, heartbeats>>
             ELSE IF what = "wait"
             THEN /\ pc' = "wait"
                  /\ wait_called_at' = clock
                  /\ last_heartbeat' = clock
                  /\ slept' = FALSE
                  /\ heartbeats' = << >>
                  /\ UNCHANGED <<outcomes, idx>>
             ELSE /\ pc' = "execute"
                  /\ UNCHANGED <<outcomes, idx, wait_called_at, last_heartbeat,
                                 slept, heartbeats>>
    /\ UNCHANGED <<clock, time_slot, wait_for_exact_time, JIRA_ACCOUNT_ID, issues,
                   transition_id, calls, waits>>
    /\ UNCHANGED <<status, history>>
    /\ NoFn

\* how many 'Still waiting...' lines of a wait are kept
MaxHeartbeats == 2

\* the latest lines of the log
Recent(log) == IF Len(log) > MaxHeartbeats THEN Tail(log) ELSE log

\* lines 342-376: one iteration of the while loop of wait_for_precise_time
WaitPoll ==
    /\ pc = "wait"
    /\ LET now == clock
           target == target_time.val
       IN IF Reached(now, target)
          THEN /\ pc' = "execute"
               /\ waits' = Append(waits, [key |-> issues[idx].key,
                                          target |-> target,
                                          called_at |-> wait_called_at,
                                          returned_at |-> now,
                                          slept |-> slept])
               /\ UNCHANGED <<clock, last_heartbeat, slept, heartbeats>>
          ELSE LET remaining == TargetDt(now, target) - now
               IN /\ IF HeartbeatDue(now, last_heartbeat)
                     THEN /\ heartbeats' = Recent(Append(heartbeats, now))
                          /\ last_heartbeat' = now
                     ELSE UNCHANGED <<heartbeats, last_heartbeat>>
                  /\ \E d \in Elapsed(PauseFor(remaining)) : clock' = clock + d
                  /\ slept' = TRUE
                  /\ UNCHANGED <<pc, waits>>
    /\ UNCHANGED <<time_slot, wait_for_exact_time, JIRA_ACCOUNT_ID, issues, idx,
                   target_time, wait_called_at, transition_id, calls, outcomes,
                   resolved>>
    /\ UNCHANGED <<status, history>>
    /\ NoFn

\* variant: the body of the response even when the request failed
TransitionsReturn_IgnoreError(ok, list) == list

\* what get_transitions returns for a response: the list, or [] on any error
TransitionsReturn(ok, list) == IF ok THEN list ELSE << >>

\* variant: an id found for an earlier ticket is used again
FreshId_Cached(found, cached) == IF cached # None THEN cached ELSE found

\* line 431: the id is the one just found, whatever was found before
FreshId(found, cached) == found

\* lines 425-443: fetch the ticket's transitions and look the name up
GetTransitions ==
    /\ pc = "execute"
    /\ \E ok \in BOOLEAN, list \in TransitionAnswers(issues[idx].key),
          lat \in Latencies :
          LET transitions == TransitionsReturn(ok, list)
              found == find_transition_id(transitions, TransitionNameFor(time_slot))
          IN /\ calls' = Append(calls, [op |-> "transitions", at |-> clock,
                                        key |-> issues[idx].key,
                                        ok |-> ok,
                                        returned |-> transitions])
             /\ clock' = clock + lat
             /\ IF transitions = << >>
                THEN /\ outcomes' = Append(outcomes, Log("no transitions", None, None))
                     /\ idx' = AfterIssue(idx)
                     /\ pc' = PcAfter(idx)
                     /\ UNCHANGED transition_id
                ELSE IF found = None
                THEN /\ outcomes' = Append(outcomes, Log("not found", None, None))
                     /\ idx' = AfterIssue(idx)
                     /\ pc' = PcAfter(idx)
                     /\ UNCHANGED transition_id
                ELSE /\ transition_id' = FreshId(found, transition_id)
                     /\ pc' = "apply"
                     /\ UNCHANGED <<outcomes, idx>>
    /\ UNCHANGED <<time_slot, wait_for_exact_time, JIRA_ACCOUNT_ID, issues, target_time,
                   resolved>>
    /\ NoWait
    /\ UNCHANGED <<status, history>>
    /\ NoFn

\* transition_issue's first component: success only without an error
ApplyReturn(resp) == resp = "204"

\* get_precise_timestamp: the instant as year-month-day, hour, minute, second
\* and microseconds, the fields of "%Y-%m-%d %H:%M:%S.%f" in order
get_precise_timestamp(now) ==
    << DateOf(now),
       TimeOfDay(now) \div Hour,
       (TimeOfDay(now) % Hour) \div Minute,
       (TimeOfDay(now) % Minute) \div Second,
       (TimeOfDay(now) % Second) * 100 >>

\* variant: only the success path reads the clock again
TimestampAfter_SuccessOnly(resp, before, now) ==
    IF resp = "204" THEN get_precise_timestamp(now) ELSE before

\* timestamp_after, taken on each of the three paths once the request is over
TimestampAfter(resp, before, now) == get_precise_timestamp(now)

\* lines 444-455 with transition_issue (244-286): apply, log the outcome, go on
ApplyTransition ==
    /\ pc = "apply"
    /\ \E resp \in {"204", "http error", "exception"}, lat \in Latencies :
          LET timestamp_before == get_precise_timestamp(clock)
              timestamp_after == TimestampAfter(resp, timestamp_before, clock + lat)
          IN /\ calls' = Append(calls, [op |-> "apply", at |-> clock,
                                        over |-> clock + lat,
                                        key |-> issues[idx].key,
                                        id |-> transition_id.val,
                                        resp |-> resp])
             /\ clock' = clock + lat
             /\ outcomes' = Append(outcomes,
                    Log(IF ApplyReturn(resp) THEN "SUCCESS" ELSE "FAILED",
                        timestamp_before, timestamp_after))
             /\ idx' = AfterIssue(idx)
             /\ pc' = PcAfter(idx)
             /\ IF DOMAIN status # {} /\ resp = "204"
                THEN \E done \in PerformedAt(clock, clock + lat) :
                        /\ status' = [status EXCEPT
                                         ![issues[idx].key] = After(transition_id.val)]
                        /\ history' = Append(history, [slot |-> time_slot,
                                                       key |-> issues[idx].key,
                                                       id |-> transition_id.val,
                                                       at |-> done])
                ELSE UNCHANGED <<status, history>>
    /\ UNCHANGED <<time_slot, wait_for_exact_time, JIRA_ACCOUNT_ID, issues, target_time,
                   transition_id, resolved>>
    /\ NoWait
    /\ NoFn

Next == Enter \/ Search \/ NextIssue \/ WaitPoll \/ GetTransitions \/ ApplyTransition

Spec == Init /\ [][Next]_vars

\* the run is a process that keeps executing: the clock advances through every
\* sleep and poll, and every remote request comes back
FairSpec == Spec /\ WF_vars(Next)

(***************************************************************************)
(* A day of invocations: run_automation is started again and again, each   *)
(* time by a fresh process, for any slot, at the slot's usual start or     *)
(* right away, while the service keeps the tickets' statuses.              *)
(***************************************************************************)
SlotOrder == <<"8AM", "12PM", "1PM", "5PM">>

\* when a process of the day is started, relative to the slot's fallback time:
\* early enough to have searched a few milliseconds before it, or late
DayOffsets == { -(Second + 5 * Millisecond), Second \div 2 }

\* as many invocations in the day as there are slots
MaxRuns == Len(SlotOrder)

InitDay ==
    /\ time_slot \in SlotIds
    /\ wait_for_exact_time = TRUE
    /\ clock \in { SCHEDULE[time_slot].target_time + o : o \in DayOffsets }
    /\ pc = "entry"
    /\ JIRA_ACCOUNT_ID = ""
    /\ issues = << >>
    /\ idx = 0
    /\ target_time = None
    /\ wait_called_at = 0
    /\ last_heartbeat = 0
    /\ slept = FALSE
    /\ heartbeats = << >>
    /\ transition_id = None
    /\ calls = << >>
    /\ waits = << >>
    /\ outcomes = << >>
    /\ resolved = << >>
    /\ NoProcess
    /\ status = [k \in DayKeys |-> "SUPPORT OPEN"]
    /\ history = << >>
    /\ invoked = <<[slot |-> time_slot, at |-> clock]>>
    /\ arg = None
    /\ ret = None

\* when a process for slot s may be started: around the slot's time, or right
\* away once that time is past
LaunchTimes(s) ==
    { t \in { SCHEDULE[s].target_time + o : o \in DayOffsets } : t >= clock }
    \cup (IF clock >= SCHEDULE[s].target_time THEN {clock} ELSE {})

\* the previous process is over; another one is started for slot s
Invoke ==
    /\ pc \in {"returned", "raised"}
    /\ Len(invoked) < MaxRuns
    /\ \E s \in SlotIds :
       \E t \in LaunchTimes(s) :
          /\ clock' = t
          /\ time_slot' = s
          /\ invoked' = Append(invoked, [slot |-> s, at |-> t])
    /\ pc' = "entry"
    /\ JIRA_ACCOUNT_ID' = ""
    /\ issues' = << >>
    /\ idx' = 0
    /\ target_time' = None
    /\ wait_called_at' = 0
    /\ last_heartbeat' = 0
    /\ slept' = FALSE
    /\ heartbeats' = << >>
    /\ transition_id' = None
    /\ calls' = << >>
    /\ waits' = << >>
    /\ outcomes' = << >>
    /\ resolved' = << >>
    /\ UNCHANGED <<wait_for_exact_time, args, token, weekday, exit_code, status,
                   history, sched, arg, ret>>

NextDay == Next \/ Invoke

SpecDay == InitDay /\ [][NextDay]_vars

(***************************************************************************)
(* main: the command line entry point.  The options that only print        *)
(* (--calc-duration, --schedule, --verify) are not given.                  *)
(***************************************************************************)
\* variant: no check of the token
get_auth_Unchecked(tok) == Some("auth")

\* get_auth: the credentials, or None where it raises ValueError
get_auth(tok) == IF tok THEN Some("auth") ELSE None

\* now_wib().weekday()
Weekday(now) == (weekday + DateOf(now)) % 7

get_current_time_slot(now) ==
    LET hour == TimeOfDay(now) \div Hour
    IN IF hour < 12 THEN "8AM"
       ELSE IF hour < 13 THEN "12PM"
       ELSE IF hour < 17 THEN "1PM"
       ELSE "5PM"

\* variant: --test is not looked at
MainBranch_Run(test) == "entry"

\* lines 787 and 819: the search-only branch, or the normal run
MainBranch(test) == IF test THEN "test" ELSE "entry"

\* the day of the week the process is started on: Friday, Saturday or Sunday
StartWeekdays == {4, 5, 6}

InitMain ==
    /\ args \in [time_slot : SlotIds \cup {"auto"}, test : BOOLEAN, no_wait : BOOLEAN]
    /\ token \in BOOLEAN
    /\ weekday \in StartWeekdays
    /\ exit_code = None
    /\ sched = NoScheduler
    /\ time_slot = args.time_slot
    /\ wait_for_exact_time = TRUE
    /\ clock \in { SCHEDULE[IF time_slot = "auto" THEN "12PM" ELSE time_slot].target_time + o :
                      o \in StartOffsets }
    /\ pc = "main"
    /\ JIRA_ACCOUNT_ID = ""
    /\ issues = << >>
    /\ idx = 0
    /\ target_time = None
    /\ wait_called_at = 0
    /\ last_heartbeat = 0
    /\ slept = FALSE
    /\ heartbeats = << >>
    /\ transition_id = None
    /\ calls = << >>
    /\ waits = << >>
    /\ outcomes = << >>
    /\ resolved = << >>
    /\ OpenService
    /\ invoked = << >>
    /\ arg = None
    /\ ret = None

\* what no step of main itself touches
MainFrame ==
    /\ UNCHANGED <<args, token, weekday, target_time, transition_id, outcomes,
                   resolved, idx, status, history, sched, arg, ret>>
    /\ NoWait

\* lines 761-786: the token check, the weekend check, the slot, the branch
Main ==
    /\ pc = "main"
    /\ IF get_auth(token) = None
       THEN /\ exit_code' = Some(1)
            /\ pc' = "exited"
            /\ UNCHANGED <<time_slot, wait_for_exact_time, invoked>>
       ELSE IF Weekday(clock) >= 5
       THEN /\ exit_code' = Some(0)
            /\ pc' = "exited"
            /\ UNCHANGED <<time_slot, wait_for_exact_time, invoked>>
       ELSE /\ time_slot' = IF args.time_slot = "auto"
                            THEN get_current_time_slot(clock)
                            ELSE args.time_slot
            /\ pc' = MainBranch(args.test)
            /\ IF pc' = "entry"
               THEN /\ wait_for_exact_time' = ~args.no_wait
                    /\ invoked' = Append(invoked, [slot |-> time_slot', at |-> clock])
               ELSE UNCHANGED <<wait_for_exact_time, invoked>>
            /\ UNCHANGED exit_code
    /\ UNCHANGED <<clock, JIRA_ACCOUNT_ID, issues, calls>>
    /\ MainFrame

\* lines 790-794: build_jql in test mode; the account lookup may fail
TestBuildJql ==
    /\ pc = "test"
    /\ \E ok \in BOOLEAN, lat \in Latencies :
          /\ calls' = Append(calls, [op |-> "myself", at |-> clock])
          /\ clock' = clock + lat
          /\ JIRA_ACCOUNT_ID' = IF ok THEN "account-1" ELSE ""
          /\ IF ok
             THEN pc' = "test_search" /\ UNCHANGED exit_code
             ELSE pc' = "exited" /\ exit_code' = Some(1)
    /\ UNCHANGED <<time_slot, wait_for_exact_time, issues, invoked>>
    /\ MainFrame

\* lines 796-817: the search of test mode and the listing of what it found
TestSearch ==
    /\ pc = "test_search"
    /\ \E ok \in BOOLEAN, lat \in Latencies,
          found \in SearchAnswers(SCHEDULE[time_slot].from_status, clock) :
          /\ calls' = Append(calls, [op |-> "search", at |-> clock, ok |-> ok,
                                     matched |-> found,
                                     status |-> SCHEDULE[time_slot].from_status,
                                     day |-> DateOf(clock)])
          /\ clock' = clock + lat
          /\ issues' = SearchReturn(ok, found)
    /\ pc' = "exited"
    /\ exit_code' = Some(0)
    /\ UNCHANGED <<time_slot, wait_for_exact_time, JIRA_ACCOUNT_ID, invoked>>
    /\ MainFrame

\* lines 819-824: run_automation came back, or raised ValueError
MainExit ==
    /\ pc \in {"returned", "raised"}
    /\ exit_code' = IF pc = "raised" THEN Some(1) ELSE Some(0)
    /\ pc' = "exited"
    /\ UNCHANGED <<clock, time_slot, wait_for_exact_time, JIRA_ACCOUNT_ID, issues,
                   calls, invoked>>
    /\ MainFrame

NextMain == Main \/ TestBuildJql \/ TestSearch \/ MainExit \/ Next

SpecMain == InitMain /\ [][NextMain]_vars

(***************************************************************************)
(* scheduler.py: the four daily jobs, run_slot and the loop                *)
(***************************************************************************)
\* lines 90-93: the at() time of each job, on the UTC clock of the host
JobAt ==
    [s \in SlotIds |->
        CASE s = "8AM" -> Time(0, 59, 0)
          [] s = "12PM" -> Time(4, 59, 0)
          [] s = "1PM" -> Time(5, 59, 0)
          [] s = "5PM" -> Time(9, 59, 0)]

\* schedule, every().day.at(): the first instant after now, an instant of the
\* WIB clock, at which the UTC clock shows the time of day at
NextRun(now, at) ==
    LET utc == now - WIB
    IN (IF TimeOfDay(utc) < at THEN DateOf(utc) * Day + at
        ELSE (DateOf(utc) + 1) * Day + at) + WIB

\* lines 44-48: Monday to Friday in WIB
_is_weekday(now) == Weekday(now) < 5

\* variant: subprocess.run returns while the process is still running
Completed_Detached(p) == TRUE

\* line 65: subprocess.run returns once the process has exited
Completed(p) == p = "exited"

\* the process scheduler.py has launched is running
Alive == pc \notin {"none", "exited"}

\* schedule.run_pending: the jobs that are due, earliest first
Runnable(now) == { s \in SlotIds : now >= sched.next_run[s] }

Sorted(jobs) ==
    CHOOSE q \in [1..Cardinality(jobs) -> jobs] :
       \A i, j \in 1..Cardinality(jobs) :
          i < j => sched.next_run[q[i]] < sched.next_run[q[j]]

\* the latest instant scheduler.py is followed to
SchedHorizon == Time(13, 2, 0)

\* when scheduler.py is started
SchedStarts == { Time(7, 58, 40) }

\* the tickets of the day: one is in SUPPORT OPEN in the morning
OpenTickets == { {"SUP-1"}, {"SUP-4"} }

InitSched ==
    /\ clock \in SchedStarts
    /\ weekday \in StartWeekdays
    /\ token \in BOOLEAN
    /\ sched = [pc |-> "sleep",
                next_run |-> [s \in SlotIds |-> NextRun(clock, JobAt[s])],
                queue |-> << >>,
                launches |-> << >>]
    /\ pc = "none"
    /\ args = DefaultArgs
    /\ exit_code = None
    /\ time_slot = "auto"
    /\ wait_for_exact_time = TRUE
    /\ JIRA_ACCOUNT_ID = ""
    /\ issues = << >>
    /\ idx = 0
    /\ target_time = None
    /\ wait_called_at = 0
    /\ last_heartbeat = 0
    /\ slept = FALSE
    /\ heartbeats = << >>
    /\ transition_id = None
    /\ calls = << >>
    /\ waits = << >>
    /\ outcomes = << >>
    /\ resolved = << >>
    /\ \E open \in OpenTickets : status = [k \in open |-> "SUPPORT OPEN"]
    /\ history = << >>
    /\ invoked = << >>
    /\ arg = None
    /\ ret = None

\* what no step of scheduler.py itself touches
SchedFrame ==
    UNCHANGED <<token, weekday, status, history, invoked, arg, ret>>

ProcessUnchanged ==
    UNCHANGED <<pc, args, exit_code, time_slot, wait_for_exact_time,
                JIRA_ACCOUNT_ID, issues, idx, target_time, wait_called_at,
                last_heartbeat, slept, heartbeats, transition_id, calls, waits,
                outcomes, resolved>>

\* schedule, Job.run: the job is rescheduled once its function has returned
Rescheduled(s, slot, now) ==
    [s EXCEPT !.next_run[slot] = NextRun(now, JobAt[slot]),
              !.queue = Tail(s.queue),
              !.pc = IF Tail(s.queue) = << >> THEN "sleep" ELSE "job",
              !.launches[Len(s.launches)].over = Some(now)]

\* lines 108-110: time.sleep(30), then schedule.run_pending collects the jobs
\* that are due
Loop ==
    /\ sched.pc = "sleep"
    /\ \E d \in Elapsed(30 * Second) :
          /\ clock + d <= SchedHorizon
          /\ clock' = clock + d
    /\ LET due == Runnable(clock')
       IN sched' = [sched EXCEPT !.queue = Sorted(due),
                                 !.pc = IF due = {} THEN "sleep" ELSE "job"]
    /\ ProcessUnchanged
    /\ SchedFrame

\* lines 51-65: run_slot up to subprocess.run, or its return on a weekend
RunSlot ==
    /\ sched.pc = "job"
    /\ LET slot == Head(sched.queue)
           launch == [slot |-> slot, due |-> sched.next_run[slot], at |-> clock,
                      started |-> _is_weekday(clock), over |-> None]
           logged == [sched EXCEPT !.launches = Append(sched.launches, launch)]
       IN IF ~_is_weekday(clock)
          THEN /\ sched' = Rescheduled(logged, slot, clock)
               /\ ProcessUnchanged
          ELSE /\ sched' = [logged EXCEPT !.pc = "blocked"]
               /\ pc' = "main"
               /\ args' = [time_slot |-> slot, test |-> FALSE, no_wait |-> FALSE]
               /\ time_slot' = slot
               /\ exit_code' = None
               /\ wait_for_exact_time' = TRUE
               /\ JIRA_ACCOUNT_ID' = ""
               /\ issues' = << >>
               /\ idx' = 0
               /\ target_time' = None
               /\ wait_called_at' = 0
               /\ last_heartbeat' = 0
               /\ slept' = FALSE
               /\ heartbeats' = << >>
               /\ transition_id' = None
               /\ calls' = << >>
               /\ waits' = << >>
               /\ outcomes' = << >>
               /\ resolved' = << >>
    /\ UNCHANGED clock
    /\ SchedFrame

\* lines 65-82: subprocess.run returns, the output is logged, run_slot returns
Reap ==
    /\ sched.pc = "blocked"
    /\ Completed(pc)
    /\ sched' = Rescheduled(sched, Head(sched.queue), clock)
    /\ UNCHANGED clock
    /\ ProcessUnchanged
    /\ SchedFrame

NextSched == Loop \/ RunSlot \/ Reap \/ Main \/ MainExit \/ Next

SpecSched == InitSched /\ [][NextSched]_vars

\* jira_automation.py --time-slot 12PM started by hand on a Friday, half a
\* second before midnight
InitNight ==
    /\ args \in [time_slot : {"12PM"}, test : {FALSE}, no_wait : BOOLEAN]
    /\ token = TRUE
    /\ weekday = 4
    /\ exit_code = None
    /\ sched = NoScheduler
    /\ time_slot = args.time_slot
    /\ wait_for_exact_time = TRUE
    /\ clock = Day - Second \div 2
    /\ pc = "main"
    /\ JIRA_ACCOUNT_ID = ""
    /\ issues = << >>
    /\ idx = 0
    /\ target_time = None
    /\ wait_called_at = 0
    /\ last_heartbeat = 0
    /\ slept = FALSE
    /\ heartbeats = << >>
    /\ transition_id = None
    /\ calls = << >>
    /\ waits = << >>
    /\ outcomes = << >>
    /\ resolved = << >>
    /\ OpenService
    /\ invoked = << >>
    /\ arg = None
    /\ ret = None

\* the program as deployed: scheduler.py with the processes it launches, or
\* jira_automation.py started by hand
InitSystem == InitSched \/ InitMain \/ InitNight

NextSystem == NextSched \/ TestBuildJql \/ TestSearch

SpecSystem == InitSystem /\ [][NextSystem]_vars

(***************************************************************************)
(* Vocabulary of the properties                                            *)
(***************************************************************************)
\* the same letter, whatever its case
SameLetter(a, b) ==
    \/ a = b
    \/ \E k \in 1..Len(UpperLetters) : {a, b} = {UpperLetters[k], LowerLetters[k]}

\* two names are equal when letter case is ignored
EqualsIgnoringCase(m, n) ==
    /\ Len(m) = Len(n)
    /\ \A i \in 1..Len(m) : SameLetter(m[i], n[i])

CallsOf(op) == { i \in 1..Len(calls) : calls[i].op = op }

\* the requests of kind op made for ticket key
CallsFor(op, key) == { i \in CallsOf(op) : calls[i].key = key }

WaitsFor(key) == { i \in 1..Len(waits) : waits[i].key = key }

\* what the resolver returned for ticket key
ResolvedOf(key) ==
    resolved[CHOOSE j \in 1..Len(resolved) : resolved[j].key = key]

\* the names, in the list fetched by request j, of the transition with this id
NamesOfId(j, id) ==
    { calls[j].returned[k].name :
        k \in { k \in 1..Len(calls[j].returned) : calls[j].returned[k].id = id } }

(***************************************************************************)
(* C1: with wait_for_exact_time, every apply-transition request for a      *)
(* ticket resolved to a time of day T is made at or after T on the day of  *)
(* the resolution, with the id that the ticket's fetched list gives to the *)
(* name configured for the slot being run, and to no other slot's name.    *)
(***************************************************************************)
C1_ApplyAfterTargetWithSlotName ==
    wait_for_exact_time =>
        \A i \in CallsOf("apply") :
            LET r == ResolvedOf(calls[i].key)
            IN /\ r.t # None
               /\ calls[i].at >= r.today * Day + r.t.val
               /\ \E j \in CallsFor("transitions", calls[i].key) :
                     /\ j < i
                     /\ \E n \in NamesOfId(j, calls[i].id) :
                           EqualsIgnoringCase(n, SCHEDULE[time_slot].transition_name)
                     /\ \A n \in NamesOfId(j, calls[i].id) :
                           \A s \in SlotIds \ {time_slot} :
                               ~EqualsIgnoringCase(n, SCHEDULE[s].transition_name)

\* a ticket whose wait really paused has had its transition applied
C1_Witness ==
    /\ wait_for_exact_time
    /\ \E i \in CallsOf("apply") :
          \E w \in WaitsFor(calls[i].key) :
              /\ waits[w].slept
              /\ waits[w].returned_at - waits[w].called_at > 30 * Second

(***************************************************************************)
(* C2: a wait entered before T returns only once the time of day is at or  *)
(* past T; a wait entered at or past T returns at once, without a pause.   *)
(***************************************************************************)
C2_WaitReturnsAtOrAfterTarget ==
    \A i \in 1..Len(waits) :
        LET w == waits[i]
        IN /\ TimeOfDay(w.returned_at) >= w.target
           /\ TimeOfDay(w.called_at) < w.target =>
                 w.returned_at >= DateOf(w.called_at) * Day + w.target
           /\ TimeOfDay(w.called_at) >= w.target =>
                 (w.returned_at = w.called_at /\ ~w.slept)

\* one run with both cases: a wait that paused, and one entered exactly at T
C2_Witness ==
    /\ \E i \in 1..Len(waits) :
          TimeOfDay(waits[i].called_at) < waits[i].target /\ waits[i].slept
    /\ \E i \in 1..Len(waits) :
          TimeOfDay(waits[i].called_at) = waits[i].target

C4_AllTicketsAttempted ==
    pc = "returned" /\ time_slot \in SlotIds =>
        /\ Len(outcomes) = Len(issues)
        /\ \A j \in 1..Len(issues) :
              LET key == issues[j].key
              IN /\ outcomes[j].key = key
                 /\ outcomes[j].result # "skipped" => CallsFor("transitions", key) # {}
                 /\ \A c \in CallsFor("transitions", key) :
                       (\E k \in 1..Len(calls[c].returned) :
                            EqualsIgnoringCase(calls[c].returned[k].name,
                                               SCHEDULE[time_slot].transition_name))
                       => \E a \in CallsFor("apply", key) :
                             outcomes[j].result =
                                 IF calls[a].resp = "204" THEN "SUCCESS" ELSE "FAILED"

\* a failed ticket before a successful one, and one after
C4_Witness ==
    /\ pc = "returned"
    /\ \E i, j \in 1..Len(outcomes) :
          /\ i < j
          /\ outcomes[i].result = "FAILED"
          /\ outcomes[j].result = "SUCCESS"

(***************************************************************************)
(* C8: a ticket the resolver answered None for gets no wait, no            *)
(* list-transitions request and no apply-transition request, and the loop  *)
(* goes on past it: every ticket of the result is resolved by the time the *)
(* run returns.                                                            *)
(***************************************************************************)
C8_SkipMeansNoWaitNoCalls ==
    /\ \A j \in 1..Len(resolved) :
          resolved[j].t = None =>
              /\ WaitsFor(resolved[j].key) = {}
              /\ CallsFor("transitions", resolved[j].key) = {}
              /\ CallsFor("apply", resolved[j].key) = {}
              /\ idx > j
    /\ pc = "returned" /\ issues # << >> => Len(resolved) = Len(issues)

\* a skipped ticket followed by a ticket whose transition was requested
C8_Witness ==
    \E j \in 1..Len(resolved) :
        /\ resolved[j].t = None
        /\ \E k \in (j + 1)..Len(resolved) :
              CallsFor("apply", resolved[k].key) # {}

(***************************************************************************)
(* C9: once the search has yielded no tickets, because the result was      *)
(* empty or because the request failed, the run has returned normally      *)
(* without a wait, a list-transitions or an apply-transition request.      *)
(***************************************************************************)
C9_NoTicketsNoWork ==
    \A i \in CallsOf("search") :
        /\ ~calls[i].ok => issues = << >>
        /\ issues = << >> =>
              /\ pc = "returned"
              /\ waits = << >>
              /\ resolved = << >>
              /\ CallsOf("transitions") = {}
              /\ CallsOf("apply") = {}

\* the search request failed although tickets matched
C9_Witness ==
    /\ pc = "returned"
    /\ \E i \in CallsOf("search") : ~calls[i].ok /\ calls[i].matched # << >>

(***************************************************************************)
(* C11: a ticket whose list-transitions request failed, or answered an     *)
(* empty list, or a list without the slot's transition name under any      *)
(* letter case, gets no apply-transition request; the run does not raise,  *)
(* logs the ticket as not transitioned, and goes on: when it returns,      *)
(* every ticket of the search result has been resolved and logged.         *)
(***************************************************************************)
NoMatch(c) ==
    \A k \in 1..Len(calls[c].returned) :
        ~EqualsIgnoringCase(calls[c].returned[k].name,
                            SCHEDULE[time_slot].transition_name)

C11_LookupFailureIsPerTicket ==
    /\ \A c \in CallsOf("transitions") :
          (~calls[c].ok \/ NoMatch(c)) =>
              /\ CallsFor("apply", calls[c].key) = {}
              /\ pc # "raised"
              /\ \E j \in 1..Len(outcomes) :
                    /\ outcomes[j].key = calls[c].key
                    /\ outcomes[j].result \in {"no transitions", "not found"}
    /\ pc = "returned" /\ issues # << >> =>
          /\ Len(resolved) = Len(issues)
          /\ Len(outcomes) = Len(issues)

\* a lookup that failed, and after it another ticket's transition applied
C11_Witness ==
    /\ pc = "returned"
    /\ \E a \in CallsOf("transitions") :
          /\ ~calls[a].ok
          /\ \E i \in CallsOf("apply") : a < i /\ calls[i].resp = "204"

(***************************************************************************)
(* C12: every transition_issue call hands back a before-timestamp that is  *)
(* the clock reading when the request was sent and an after-timestamp that *)
(* is the clock reading when the request was over, whether it was          *)
(* acknowledged, refused with an HTTP error or broke off with an           *)
(* exception; as texts, the after-timestamp never sorts before the         *)
(* before-timestamp.                                                       *)
(***************************************************************************)
\* a <= b for two timestamps of the same format, compared field by field
RECURSIVE NotLaterFrom(_, _, _)
NotLaterFrom(a, b, i) ==
    IF i > Len(a) THEN TRUE
    ELSE IF a[i] # b[i] THEN a[i] < b[i]
    ELSE NotLaterFrom(a, b, i + 1)

NotLater(a, b) == NotLaterFrom(a, b, 1)

\* the outcome logged for request i
OutcomeOf(i) ==
    outcomes[CHOOSE j \in 1..Len(outcomes) : outcomes[j].key = calls[i].key]

C12_TimestampsBracketTheCall ==
    \A i \in CallsOf("apply") :
        LET o == OutcomeOf(i)
        IN /\ o.result = IF calls[i].resp = "204" THEN "SUCCESS" ELSE "FAILED"
           /\ o.before = get_precise_timestamp(calls[i].at)
           /\ o.after = get_precise_timestamp(calls[i].over)
           /\ calls[i].at <= calls[i].over
           /\ NotLater(o.before, o.after)

\* both failure paths were taken in one run, and the requests took time
C12_Witness ==
    /\ \E i \in CallsOf("apply") :
          calls[i].resp = "http error" /\ calls[i].over > calls[i].at
    /\ \E i \in CallsOf("apply") :
          calls[i].resp = "exception" /\ calls[i].over > calls[i].at

(***************************************************************************)
(* C13: a run that keeps executing ends: run_automation returns, or, when  *)
(* the account lookup failed before any search, raises to its caller; no   *)
(* search result and no skip, lookup failure or apply failure of a ticket  *)
(* makes it raise or keeps it from returning.                              *)
(***************************************************************************)
Terminated == pc \in {"returned", "raised"}

C13_RunTerminates ==
    /\ <>Terminated
    /\ [](pc = "raised" => CallsOf("search") = {})

\* a run that returned after a wait that paused, a ticket whose lookup
\* failed and a ticket whose transition was refused
C13_Witness ==
    /\ pc = "returned"
    /\ \E i \in 1..Len(waits) : waits[i].slept
    /\ \E j \in 1..Len(outcomes) : outcomes[j].result \in {"no transitions", "not found"}
    /\ \E j \in 1..Len(outcomes) : outcomes[j].result = "FAILED"

(***************************************************************************)
(* C14: over the invocations of one day, the service performs the          *)
(* transition of a slot at most once for a ticket: no two transitions of   *)
(* the day's history are of the same slot, for the same ticket, on the     *)
(* same date.                                                              *)
(***************************************************************************)
C14_OncePerSlotPerDay ==
    \A i, j \in 1..Len(history) :
        /\ history[i].slot = history[j].slot
        /\ history[i].key = history[j].key
        /\ DateOf(history[i].at) = DateOf(history[j].at)
        => i = j

(***************************************************************************)
(* C15: SUP-1 is planned to start today at 08:00 and to end today at       *)
(* 17:00.  When the four slots have been run in schedule order, each       *)
(* started before its time and waiting for it, and every request was       *)
(* answered with success, so that the service performed the four           *)
(* transitions, the time SUP-1 was in progress (from its start to its      *)
(* pause plus from its resumption to its end) is exactly 8 hours.          *)
(***************************************************************************)
InScheduleOrder ==
    /\ wait_for_exact_time
    /\ Len(invoked) = Len(SlotOrder)
    /\ \A n \in 1..Len(SlotOrder) :
          /\ invoked[n].slot = SlotOrder[n]
          /\ invoked[n].at < SCHEDULE[SlotOrder[n]].target_time

AllPerformed ==
    /\ pc = "returned"
    /\ Len(history) = Len(SlotOrder)
    /\ \A n \in 1..Len(SlotOrder) :
          history[n].slot = SlotOrder[n] /\ history[n].key = "SUP-1"

InProgressTime ==
    (history[2].at - history[1].at) + (history[4].at - history[3].at)

C15_InProgressIsEightHours ==
    InScheduleOrder /\ AllPerformed => InProgressTime = 8 * Hour

(***************************************************************************)
(* C16: run_automation called with a slot id outside SCHEDULE returns      *)
(* having done nothing: no account lookup, no search, no resolution, no    *)
(* wait, no list-transitions and no apply-transition request, and the      *)
(* cached account id untouched.                                            *)
(***************************************************************************)
C16_InvalidSlotNoEffects ==
    time_slot \notin SlotIds =>
        /\ pc \in {"entry", "returned"}
        /\ calls = << >>
        /\ waits = << >>
        /\ resolved = << >>
        /\ outcomes = << >>
        /\ issues = << >>
        /\ JIRA_ACCOUNT_ID = ""

\* the call with an unknown slot id has returned
C16_Witness == time_slot = "9AM" /\ pc = "returned"

(***************************************************************************)
(* C20: with wait_for_exact_time false the waiter is never called; a       *)
(* ticket resolved to a time is handed to the executor at the instant of   *)
(* its resolution, be that before its target time, and a ticket resolved   *)
(* to None gets no request at all.                                         *)
(***************************************************************************)
C20_NoWaitExecutesAtOnce ==
    ~wait_for_exact_time =>
        /\ pc # "wait"
        /\ waits = << >>
        /\ \A j \in 1..Len(resolved) :
              LET r == resolved[j]
              IN IF r.t = None
                 THEN /\ CallsFor("transitions", r.key) = {}
                      /\ CallsFor("apply", r.key) = {}
                 ELSE /\ \A c \in CallsFor("transitions", r.key) : calls[c].at = r.at
                      /\ idx > j \/ pc \in {"apply", "returned"} =>
                             CallsFor("transitions", r.key) # {}

\* a transition applied more than a minute before the ticket's target time,
\* after a ticket that was skipped
C20_Witness ==
    /\ ~wait_for_exact_time
    /\ \E j, k \in 1..Len(resolved) :
          /\ j < k
          /\ resolved[j].t = None
          /\ resolved[k].t # None
          /\ \E i \in CallsFor("apply", resolved[k].key) :
                calls[i].over + Minute < resolved[k].today * Day + resolved[k].t.val

(***************************************************************************)
(* C18: a process started without the API token exits with status 1       *)
(* straight from main: it never makes a request (account lookup, search,   *)
(* list-transitions, apply-transition) and never enters run_automation.    *)
(***************************************************************************)
C18_MissingTokenIsFatal ==
    ~token =>
        /\ pc \in {"main", "exited"}
        /\ pc = "exited" => exit_code = Some(1)
        /\ calls = << >>
        /\ invoked = << >>

\* exited for want of the token, on a working day, asked for a normal run
C18_Witness ==
    /\ ~token
    /\ pc = "exited"
    /\ exit_code = Some(1)
    /\ Weekday(clock) < 5
    /\ ~args.test

(***************************************************************************)
(* C19: a process started with --test makes no request but the account     *)
(* lookup and the search: it never waits, never resolves a target time,    *)
(* and sends neither list-transitions nor apply-transition, for every slot *)
(* and every search result.                                                *)
(***************************************************************************)
C19_TestModeOnlySearches ==
    args.test =>
        /\ pc \in {"main", "test", "test_search", "exited"}
        /\ waits = << >>
        /\ resolved = << >>
        /\ outcomes = << >>
        /\ \A i \in 1..Len(calls) : calls[i].op \in {"myself", "search"}
        /\ Cardinality(CallsOf("search")) <= 1

\* test mode is over and its search found tickets
C19_Witness ==
    /\ args.test
    /\ pc = "exited"
    /\ exit_code = Some(0)
    /\ Len(issues) >= 2

(***************************************************************************)
(* C25: every apply-transition request comes right after a                 *)
(* list-transitions request for the same ticket, made after that ticket's  *)
(* wait has returned, and carries the id that find_transition_id gives for *)
(* the slot's name in the list this request returned: never an id taken    *)
(* from another ticket's list.                                             *)
(***************************************************************************)
C25_IdResolvedFreshPerTicket ==
    \A i \in CallsOf("apply") :
        /\ i > 1
        /\ calls[i - 1].op = "transitions"
        /\ calls[i - 1].key = calls[i].key
        /\ Some(calls[i].id) =
              find_transition_id(calls[i - 1].returned, SCHEDULE[time_slot].transition_name)
        /\ wait_for_exact_time => WaitsFor(calls[i].key) # {}
        /\ \A w \in WaitsFor(calls[i].key) : waits[w].returned_at <= calls[i - 1].at

\* two tickets of one run whose lists give the slot's name different ids
C25_Witness ==
    /\ wait_for_exact_time
    /\ \E i, j \in CallsOf("apply") :
          /\ i < j
          /\ calls[i].key # calls[j].key
          /\ calls[i].id # calls[j].id

(***************************************************************************)
(* C22: the tickets are handled one after the other in the order of the    *)
(* search result, neither sorted nor deduplicated: the resolution of a     *)
(* ticket comes after every request and the wait of the tickets before     *)
(* it; and a ticket whose target time is already past when it is resolved  *)
(* gets a wait that returns at once and a transition requested then, later *)
(* than its target time.                                                   *)
(***************************************************************************)
TargetOf(r) == r.today * Day + r.t.val

C22_SequentialInResultOrder ==
    /\ \A s \in CallsOf("search") : calls[s].ok => issues = calls[s].matched
    /\ \A k \in 1..Len(resolved) :
          LET r == resolved[k]
          IN /\ r.key = issues[k].key
             /\ \A j \in 1..(k - 1) :
                   /\ resolved[j].at <= r.at
                   /\ \A c \in CallsFor("transitions", issues[j].key)
                                \cup CallsFor("apply", issues[j].key) :
                         /\ calls[c].at < r.at
                         /\ \A d \in CallsFor("transitions", r.key)
                                      \cup CallsFor("apply", r.key) : c < d
                   /\ \A w \in WaitsFor(issues[j].key) :
                         /\ waits[w].returned_at <= r.at
                         /\ \A v \in WaitsFor(r.key) : w < v
             /\ (wait_for_exact_time /\ r.t # None /\ r.at >= TargetOf(r)) =>
                   /\ \A w \in WaitsFor(r.key) :
                         waits[w].returned_at = r.at /\ ~waits[w].slept
                   /\ \A c \in CallsFor("transitions", r.key) : calls[c].at = r.at
                   /\ \A c \in CallsFor("apply", r.key) : calls[c].at > TargetOf(r)

\* a ticket waited for, then a ticket with an earlier target time, found
\* past, not waited for and transitioned late
C22_Witness ==
    /\ wait_for_exact_time
    /\ \E j, k \in 1..Len(resolved) :
          /\ j < k
          /\ resolved[j].t # None /\ resolved[k].t # None
          /\ resolved[k].t.val < resolved[j].t.val
          /\ \E w \in WaitsFor(resolved[j].key) : waits[w].slept
          /\ \E w \in WaitsFor(resolved[k].key) : ~waits[w].slept
          /\ \E c \in CallsFor("apply", resolved[k].key) :
                calls[c].at > TargetOf(resolved[k]) + Second

(***************************************************************************)
(* C26: a poll of the wait that finds the target not reached and 30 s or   *)
(* more gone since the wait began or since the last heartbeat logs a       *)
(* heartbeat and takes its own time as the last-heartbeat instant; every   *)
(* other poll logs none.  So heartbeats are 30 s or more apart, the first  *)
(* 30 s or more after the wait began, and all of them before the target.   *)
(***************************************************************************)
HeartbeatsSpaced ==
    /\ \A n \in 1..Len(heartbeats) :
          /\ heartbeats[n] >= wait_called_at + 30 * Second
          /\ n > 1 => heartbeats[n] >= heartbeats[n - 1] + 30 * Second
          /\ target_time # None => ~Reached(heartbeats[n], target_time.val)
    /\ last_heartbeat =
          IF heartbeats = << >> THEN wait_called_at ELSE heartbeats[Len(heartbeats)]

PollLogsHeartbeat ==
    pc = "wait" =>
        IF ~Reached(clock, target_time.val) /\ clock - last_heartbeat >= 30 * Second
        THEN heartbeats' = Recent(Append(heartbeats, clock)) /\ last_heartbeat' = clock
        ELSE UNCHANGED <<heartbeats, last_heartbeat>>

C26_HeartbeatEvery30s == []HeartbeatsSpaced /\ [][PollLogsHeartbeat]_vars

\* a wait that has returned after two heartbeats
C26_Witness ==
    /\ pc = "execute"
    /\ Len(heartbeats) = 2
    /\ heartbeats[2] = heartbeats[1] + 30 * Second

(***************************************************************************)
(* The resolver on its own: _resolve_target_time_for_issue applied to one  *)
(* issue, for one slot, at one instant of day 0.                           *)
(***************************************************************************)
ParsableShapes == {"frac_tz", "sec_tz"}

\* well-formed timestamps: yesterday, today, tomorrow; written at UTC, UTC+7
\* and UTC+9
GoodTexts ==
    { Text(shape, day, tod, off) :
        shape \in ParsableShapes,
        day \in {-1, 0, 1},
        tod \in {Time(0, 30, 0), Time(8, 15, 0), Time(17, 0, 0), Time(23, 30, 0)},
        off \in {0, WIB, 9 * Hour} }

\* null, and texts that do not parse
BadValues ==
    { None,
      Text("empty", 0, 0, 0),
      Text("junk", 0, 0, 0),
      Text("no_tz", 0, Time(8, 15, 0), 0),
      Text("space", 0, Time(8, 15, 0), WIB) }

RawValues == GoodTexts \cup BadValues

\* what the field the slot does not read may hold
OtherValues ==
    { None,
      Text("junk", 0, 0, 0),
      Text("frac_tz", 0, Time(9, 45, 0), WIB),
      Text("frac_tz", -1, Time(16, 0, 0), WIB) }

ResolveIssues ==
    { Issue("SUP-1", a, b) : a \in RawValues, b \in OtherValues }
    \cup { Issue("SUP-1", b, a) : a \in RawValues, b \in OtherValues }
    \cup { [key |-> "SUP-1", fields |-> [customfield_10093 |-> a]] : a \in RawValues }
    \cup { [key |-> "SUP-1", fields |-> [customfield_10094 |-> a]] : a \in RawValues }
    \cup { [key |-> "SUP-1", fields |-> [summary |-> "s"]], [key |-> "SUP-1"] }

ResolveNows == { Time(7, 59, 0), Time(23, 59, 59) }

Idle ==
    /\ time_slot = "8AM"
    /\ wait_for_exact_time = FALSE
    /\ JIRA_ACCOUNT_ID = ""
    /\ issues = << >>
    /\ idx = 0
    /\ target_time = None
    /\ wait_called_at = 0
    /\ last_heartbeat = 0
    /\ slept = FALSE
    /\ heartbeats = << >>
    /\ transition_id = None
    /\ calls = << >>
    /\ waits = << >>
    /\ outcomes = << >>
    /\ resolved = << >>
    /\ NoProcess
    /\ OpenService
    /\ invoked = << >>

IdleUnchanged ==
    UNCHANGED <<clock, time_slot, wait_for_exact_time, JIRA_ACCOUNT_ID, issues, idx,
                target_time, wait_called_at, last_heartbeat, slept, heartbeats,
                transition_id, calls, waits, outcomes, resolved, args, token, weekday,
                exit_code, status, history, invoked, sched, arg>>

InitResolve ==
    /\ arg \in [issue : ResolveIssues, slot : SlotIds]
    /\ clock \in ResolveNows
    /\ ret = None
    /\ pc = "call"
    /\ Idle

ApplyResolve ==
    /\ pc = "call"
    /\ ret' = resolve_target_time_for_issue(arg.issue, arg.slot,
                                            SCHEDULE[arg.slot].target_time, clock)
    /\ pc' = "done"
    /\ IdleUnchanged

SpecResolve == InitResolve /\ [][ApplyResolve]_vars

\* the field of the issue that the slot is specified to read, and the other one
DesignatedField(slot) == IF slot = "8AM" THEN "customfield_10093" ELSE "customfield_10094"
OtherField(slot) == IF slot = "8AM" THEN "customfield_10094" ELSE "customfield_10093"

HasField(issue, f) == "fields" \in DOMAIN issue /\ f \in DOMAIN issue.fields

\* the field is present and holds a text of a shape the formats accept
Parses(issue, f) ==
    /\ HasField(issue, f)
    /\ issue.fields[f].kind = "Text"
    /\ issue.fields[f].shape \in ParsableShapes

\* the instant a well-formed text denotes, as wall time at UTC+7
InWIB(text) == text.day * Day + text.tod - text.off + 7 * Hour

\* the issue with field f set to v
WithField(issue, f, v) ==
    [issue EXCEPT !.fields =
        [k \in DOMAIN issue.fields \cup {f} |-> IF k = f THEN v ELSE issue.fields[k]]]

(***************************************************************************)
(* C5: for the 8AM and 5PM slots, a plan timestamp that parses and whose   *)
(* date at UTC+7 is not today's makes the resolver return None, whatever   *)
(* its time of day and whether the date is before or after today.          *)
(***************************************************************************)
C5_DateMismatchIsSkip ==
    pc = "done" /\ arg.slot \in {"8AM", "5PM"}
                /\ Parses(arg.issue, DesignatedField(arg.slot)) =>
        LET text == arg.issue.fields[DesignatedField(arg.slot)]
        IN InWIB(text) \div Day # clock \div Day => ret = None

\* today's date as written, tomorrow's once converted to UTC+7
C5_Witness ==
    /\ pc = "done"
    /\ arg.slot = "5PM"
    /\ Parses(arg.issue, "customfield_10094")
    /\ arg.issue.fields["customfield_10094"].day = 0
    /\ InWIB(arg.issue.fields["customfield_10094"]) \div Day = 1
    /\ ret = None

(***************************************************************************)
(* C6: for the 8AM and 5PM slots, a plan timestamp that is absent (no      *)
(* field, or null) or does not parse makes the resolver return the slot's  *)
(* fallback time, never None.                                              *)
(***************************************************************************)
C6_UnparsedIsFallback ==
    pc = "done" /\ arg.slot \in {"8AM", "5PM"}
                /\ ~Parses(arg.issue, DesignatedField(arg.slot)) =>
        ret = Some(SCHEDULE[arg.slot].target_time)

\* a malformed text in the field the slot reads
C6_Witness ==
    /\ pc = "done"
    /\ arg.slot = "5PM"
    /\ HasField(arg.issue, "customfield_10094")
    /\ arg.issue.fields["customfield_10094"] = Text("space", 0, Time(8, 15, 0), WIB)
    /\ ret = Some(Time(17, 0, 0))

(***************************************************************************)
(* C17: for the 12PM and 1PM slots the resolver returns the slot's fixed   *)
(* time of day, never None, for every issue: with or without plan fields,  *)
(* whether they parse, and whatever date they carry.                       *)
(***************************************************************************)
C17_FixedSlotsReturnFallback ==
    pc = "done" /\ arg.slot \in {"12PM", "1PM"} =>
        ret = Some(SCHEDULE[arg.slot].target_time)

\* a fixed slot resolved for an issue whose plan end is on another day
C17_Witness ==
    /\ pc = "done"
    /\ arg.slot = "12PM"
    /\ Parses(arg.issue, "customfield_10094")
    /\ InWIB(arg.issue.fields["customfield_10094"]) \div Day # clock \div Day
    /\ ret = Some(Time(12, 0, 0))

(***************************************************************************)
(* C7: for the 8AM slot the result depends on customfield_10093 only, for  *)
(* the 5PM slot on customfield_10094 only; when that field parses and its  *)
(* date at UTC+7 is today, the result is its time of day at UTC+7.         *)
(***************************************************************************)
C7_DesignatedFieldTimeOfDay ==
    pc = "done" /\ arg.slot \in {"8AM", "5PM"}
                /\ Parses(arg.issue, DesignatedField(arg.slot)) =>
        LET text == arg.issue.fields[DesignatedField(arg.slot)]
        IN /\ InWIB(text) \div Day = clock \div Day =>
                 ret = Some(InWIB(text) % Day)
           /\ \A v \in RawValues :
                 resolve_target_time_for_issue(
                     WithField(arg.issue, OtherField(arg.slot), v), arg.slot,
                     SCHEDULE[arg.slot].target_time, clock) = ret

\* today 08:15 in the start field gives 08:15, not the 08:00 fallback
C7_Witness ==
    /\ pc = "done"
    /\ arg.slot = "8AM"
    /\ arg.issue = Issue("SUP-1", Text("frac_tz", 0, Time(8, 15, 0), WIB),
                                  Text("frac_tz", -1, Time(16, 0, 0), WIB))
    /\ ret = Some(Time(8, 15, 0))

(***************************************************************************)
(* find_transition_id on its own                                           *)
(***************************************************************************)
MaxTransitions == 2

FindNames ==
    { <<"H","o","l","d"," ","S","u","p","p","o","r","t">>,
      <<"h","o","l","d"," ","s","u","p","p","o","r","t">>,
      <<"H","O","L","D"," ","S","U","P","P","O","R","T">>,
      <<"H","o","l","d">>,
      <<"H","o","l","d"," ","S","u","p","p","o","r","t"," ","2">>,
      <<"S","u","p","p","o","r","t">>,
      << >> }

\* the transitions a list may hold: each name under two ids, and one
\* transition without a name
FindTransitions ==
    { Transition(id, n) : id \in {"21", "22"}, n \in FindNames } \cup { [id |-> "23"] }

RECURSIVE SeqsUpTo(_, _)
SeqsUpTo(S, n) ==
    IF n = 0 THEN { << >> }
    ELSE LET shorter == SeqsUpTo(S, n - 1)
         IN shorter \cup { Append(l, x) : l \in shorter, x \in S }

InitFind ==
    /\ arg \in [transitions : SeqsUpTo(FindTransitions, MaxTransitions),
                transition_name : FindNames]
    /\ clock = 0
    /\ ret = None
    /\ pc = "call"
    /\ Idle

ApplyFind ==
    /\ pc = "call"
    /\ ret' = find_transition_id(arg.transitions, arg.transition_name)
    /\ pc' = "done"
    /\ IdleUnchanged

SpecFind == InitFind /\ [][ApplyFind]_vars

\* the positions of the list whose name equals the wanted one, case ignored
Matches(transitions, name) ==
    { i \in 1..Len(transitions) :
        EqualsIgnoringCase(IF "name" \in DOMAIN transitions[i]
                           THEN transitions[i].name ELSE << >>, name) }

(***************************************************************************)
(* C10: find_transition_id returns None exactly when no transition of the  *)
(* list has the wanted name, case ignored; otherwise it returns the id of  *)
(* a transition that has it (the first of them), hence the id of the only  *)
(* one when there is only one, and never the id of a transition whose name *)
(* merely contains or extends the wanted name.                             *)
(***************************************************************************)
C10_FindByNameIgnoringCase ==
    pc = "done" =>
        LET M == Matches(arg.transitions, arg.transition_name)
        IN IF M = {} THEN ret = None
           ELSE ret = Some(arg.transitions[CHOOSE i \in M : \A j \in M : i <= j].id)

\* the only match differs in case and follows a name that extends the wanted one
C10_Witness ==
    /\ pc = "done"
    /\ arg.transition_name = <<"H","o","l","d"," ","S","u","p","p","o","r","t">>
    /\ arg.transitions =
          << Transition("21", <<"H","o","l","d"," ","S","u","p","p","o","r","t"," ","2">>),
             Transition("22", <<"H","O","L","D"," ","S","U","P","P","O","R","T">>) >>
    /\ ret = Some("22")

(***************************************************************************)
(* The choice of the pause on its own: one polling iteration with a given  *)
(* remaining time.                                                         *)
(***************************************************************************)
\* how far around each threshold the remaining times are taken
PauseWindow == 30

Thresholds == {Tick, 10 * Millisecond, Second, 30 * Second, 60 * Second}

Remainings ==
    { r \in UNION { (th - PauseWindow)..(th + PauseWindow) : th \in Thresholds } : r > 0 }

InitPause ==
    /\ arg \in Remainings
    /\ clock = 0
    /\ ret = None
    /\ pc = "call"
    /\ Idle

ApplyPause ==
    /\ pc = "call"
    /\ ret' = PauseFor(arg)
    /\ pc' = "done"
    /\ IdleUnchanged

SpecPause == InitPause /\ [][ApplyPause]_vars

(***************************************************************************)
(* C28: the pause requested at a poll never exceeds the remaining time: it *)
(* is 30 s only when more than 60 s remain, 0.5 s only when more than 1 s  *)
(* remains, 1 ms only when more than 10 ms remain, 0.1 ms only when more   *)
(* than 0.1 ms remain, and none otherwise; a sleep that lasts exactly as   *)
(* requested ends at or before the target.                                 *)
(***************************************************************************)
C28_PauseWithinRemaining ==
    pc = "done" =>
        /\ ret <= arg
        /\ ret = IF arg > 60 * Second THEN 30 * Second
                 ELSE IF arg > Second THEN 500 * Millisecond
                 ELSE IF arg > 10 * Millisecond THEN Millisecond
                 ELSE IF arg > Millisecond \div 10 THEN Millisecond \div 10
                 ELSE 0

\* exactly one second remains: the pause is a millisecond, not half a second
C28_Witness ==
    /\ pc = "done"
    /\ arg = Second
    /\ ret = Millisecond


-----------------------------------------------------------------------------
\* wait_for_precise_time on its own, called shortly before midnight

\* the latest instant the waiter is followed to
Horizon == Day + Minute

\* target_time_obj of the call: the last tick of the day, its last second, and
\* a time of day that has long passed at the call
WaitTargets == { Day - Tick, Day - Second, Time(8, 0, 0) }

\* now_wib() at the call
WaitStarts == { Day - Second - Second \div 2, Day - 20 * Millisecond, Day - 2 * Tick }

InitWait ==
    /\ pc = "wait"
    /\ target_time \in { Some(t) : t \in WaitTargets }
    /\ clock \in WaitStarts
    /\ wait_called_at = clock
    /\ last_heartbeat = clock
    /\ slept = FALSE
    /\ heartbeats = << >>
    /\ time_slot = "8AM"
    /\ wait_for_exact_time = TRUE
    /\ JIRA_ACCOUNT_ID = ""
    /\ issues = << CHOOSE i \in Catalog : i.key = "SUP-1" >>
    /\ idx = 1
    /\ transition_id = None
    /\ calls = << >>
    /\ waits = << >>
    /\ outcomes = << >>
    /\ resolved = << >>
    /\ NoProcess
    /\ OpenService
    /\ invoked = << >>
    /\ arg = None
    /\ ret = None

NextWait == WaitPoll /\ clock' <= Horizon

SpecWait == InitWait /\ [][NextWait]_vars

\* C27: the target instant is the target time of day on the calendar day the
\* wait was called, so a poll that observes the clock at or after that instant
\* returns, also when it is the first poll after midnight.
C27_TargetOnDayOfCall ==
    [][ (pc = "wait" /\ clock >= DateOf(wait_called_at) * Day + target_time.val)
        => pc' = "execute" ]_vars


-----------------------------------------------------------------------------
\* Claims about scheduler.py

\* the requests that search for tickets or change one
Work == CallsOf("search") \cup CallsOf("apply")

\* run_slot starts no process on a Saturday or Sunday, and run_automation is
\* not entered on one
WeekendChecks ==
    /\ \A n \in 1..Len(sched.launches) :
          sched.launches[n].started => Weekday(sched.launches[n].at) < 5
    /\ \A n \in 1..Len(invoked) : Weekday(invoked[n].at) < 5

\* C21 as stated: on a Saturday or Sunday run_slot launches no process and
\* main exits before any search or transition, so no ticket is searched or
\* transitioned on a weekend.
C21_NoWorkOnWeekend ==
    /\ WeekendChecks
    /\ \A i \in Work : Weekday(calls[i].at) < 5

\* C23: the processes scheduler.py launches never overlap: while one is
\* running the scheduler is inside subprocess.run, and a slot is launched only
\* when the process launched before it has exited.
C23_NoOverlap ==
    /\ [](sched.pc # "off" /\ Alive => sched.pc = "blocked")
    /\ [][Len(sched'.launches) > Len(sched.launches) => ~Alive]_vars

\* a second process is running, launched after the first one was over
C23_Witness ==
    /\ Len(sched.launches) = 2
    /\ sched.launches[1].started
    /\ sched.launches[2].started
    /\ sched.launches[1].over # None
    /\ sched.launches[1].over.val <= sched.launches[2].at
    /\ pc = "wait"

\* C24: every process scheduler.py launches is over before the wake-up of the
\* next slot, whatever the tickets and their plan times, so each slot is
\* launched at its own wake-up, before its fallback time.
C24_EachSlotOnTime ==
    \A n \in 1..Len(sched.launches) :
       /\ sched.launches[n].at < sched.launches[n].due + Minute
       /\ n > 1 => /\ sched.launches[n - 1].over # None
                   /\ sched.launches[n - 1].over.val < sched.launches[n].due

====
